---- MODULE Spec2Model ----
(***************************************************************************)
(* Model of dslib.py: the Message envelope, the per-invocation Context    *)
(* with its three effect logs, and the JSON conversion both rely on.      *)
(*                                                                         *)
(* Python values are tagged records.  A dict is an insertion-ordered      *)
(* sequence of <<key, value>> pairs with distinct keys, because           *)
(* json.dumps writes the members in insertion order.  JSON text is a      *)
(* sequence of lexical tokens (punctuation, literals, whitespace).        *)
(***************************************************************************)
EXTENDS Integers, Sequences, FiniteSets, TLC

VARIABLES
    heap,                  \* dict objects (and whatever else Message._data refers to), by reference
    _type,                 \* Message._type of each constructed Message
    _data,                 \* Message._data of each constructed Message: a reference into heap
    _time,                 \* Context._time
    _sent_messages,        \* Context._sent_messages
    _sent_local_messages,  \* Context._sent_local_messages
    _timer_actions,        \* Context._timer_actions
    random,                \* state of the process-wide generator of module random
    result,                \* the last call: operation, receiver, arguments, outcome
    time0,                 \* history: the time argument each Context was constructed with
    rands,                 \* history: the values rand() returned, per Context
    calls                  \* number of calls made so far

vars == <<heap, _type, _data, _time, _sent_messages, _sent_local_messages,
          _timer_actions, random, result, time0, rands, calls>>

-----------------------------------------------------------------------------
(* Bounds of the model *)

MaxCalls == 3

MaxTextLen == 5

-----------------------------------------------------------------------------
(* Python values *)

PyNone == [t |-> "NoneType"]
PyBool(b) == [t |-> "bool", v |-> b]
PyInt(n) == [t |-> "int", v |-> n]
\* a float is identified by its repr
PyFloat(r) == [t |-> "float", v |-> r]
PyStr(s) == [t |-> "str", v |-> s]
PyList(s) == [t |-> "list", v |-> s]
PyDict(s) == [t |-> "dict", v |-> s]
\* an object json cannot serialize, such as a set
PySet == [t |-> "set"]

\* isinstance(v, str)
IsStr(v) == v.t = "str"

\* isinstance(v, (int, float)): bool is a subclass of int
IsNumber(v) == v.t \in {"int", "float", "bool"}

\* dict operations on the insertion-ordered pairs
DictKeys(d) == {d[i][1] : i \in 1..Len(d)}

DictIndex(d, k) == CHOOSE i \in 1..Len(d) : d[i][1] = k

DictGet(d, k) == d[DictIndex(d, k)][2]

\* d[k] = v: an existing key keeps its place, a new key goes last
DictSet(d, k, v) ==
    IF k \in DictKeys(d)
    THEN [d EXCEPT ![DictIndex(d, k)] = <<k, v>>]
    ELSE Append(d, <<k, v>>)

\* d.pop(k, None)
DictPop(d, k) ==
    IF k \in DictKeys(d)
    THEN LET j == DictIndex(d, k)
         IN  [i \in 1..(Len(d) - 1) |-> IF i < j THEN d[i] ELSE d[i + 1]]
    ELSE d

-----------------------------------------------------------------------------
(* JSON text: tokens *)

Strings == {"x", "y", "a"}

Ints == -1..2

FloatReprs == {"2.5"}

Quote(s) == "\"" \o s \o "\""

WS == " "

IsStrTok(tok) == \E s \in Strings : Quote(s) = tok

StrOfTok(tok) == CHOOSE s \in Strings : Quote(s) = tok

IsIntTok(tok) == \E n \in Ints : ToString(n) = tok

IntOfTok(tok) == CHOOSE n \in Ints : ToString(n) = tok

IsFloatTok(tok) == tok \in FloatReprs

-----------------------------------------------------------------------------
(* json.dumps *)

RECURSIVE Serializable(_)
Serializable(v) ==
    CASE v.t \in {"NoneType", "bool", "int", "float", "str"} -> TRUE
      [] v.t = "list" -> \A i \in 1..Len(v.v) : Serializable(v.v[i])
      [] v.t = "dict" -> \A i \in 1..Len(v.v) : Serializable(v.v[i][2])
      [] OTHER -> FALSE

RECURSIVE Encode(_), EncodeItems(_, _), EncodeMembers(_, _)
\* the text json.dumps writes for a serializable value, default separators
Encode(v) ==
    CASE v.t = "NoneType" -> <<"null">>
      [] v.t = "bool" -> IF v.v THEN <<"true">> ELSE <<"false">>
      [] v.t = "int" -> <<ToString(v.v)>>
      [] v.t = "float" -> <<v.v>>
      [] v.t = "str" -> <<Quote(v.v)>>
      [] v.t = "list" -> <<"[">> \o EncodeItems(v.v, 1) \o <<"]">>
      [] v.t = "dict" -> <<"{">> \o EncodeMembers(v.v, 1) \o <<"}">>

EncodeItems(s, i) ==
    IF i > Len(s) THEN <<>>
    ELSE (IF i > 1 THEN <<",", WS>> ELSE <<>>) \o Encode(s[i]) \o EncodeItems(s, i + 1)

EncodeMembers(d, i) ==
    IF i > Len(d) THEN <<>>
    ELSE (IF i > 1 THEN <<",", WS>> ELSE <<>>)
         \o <<Quote(d[i][1]), ":", WS>> \o Encode(d[i][2]) \o EncodeMembers(d, i + 1)

\* json.dumps(v): the text, or TypeError for a value json cannot serialize
dumps(v) ==
    IF Serializable(v)
    THEN [ok |-> TRUE, text |-> Encode(v)]
    ELSE [ok |-> FALSE, error |-> "TypeError"]

-----------------------------------------------------------------------------
(* json.loads *)

Fail == [ok |-> FALSE]

Tok(s, i) == IF i <= Len(s) THEN s[i] ELSE "<end>"

RECURSIVE SkipWs(_, _)
SkipWs(s, i) == IF Tok(s, i) = WS THEN SkipWs(s, i + 1) ELSE i

RECURSIVE ScanOnce(_, _), JSONObject(_, _, _), JSONArray(_, _, _)
\* scanner.scan_once at position i: the value and the position after it
ScanOnce(s, i) ==
    LET tok == Tok(s, i) IN
    CASE IsStrTok(tok) -> [ok |-> TRUE, val |-> PyStr(StrOfTok(tok)), end |-> i + 1]
      [] tok = "{" ->
            LET j == SkipWs(s, i + 1) IN
            IF Tok(s, j) = "}" THEN [ok |-> TRUE, val |-> PyDict(<<>>), end |-> j + 1]
            ELSE JSONObject(s, j, <<>>)
      [] tok = "[" ->
            LET j == SkipWs(s, i + 1) IN
            IF Tok(s, j) = "]" THEN [ok |-> TRUE, val |-> PyList(<<>>), end |-> j + 1]
            ELSE JSONArray(s, j, <<>>)
      [] tok = "null" -> [ok |-> TRUE, val |-> PyNone, end |-> i + 1]
      [] tok = "true" -> [ok |-> TRUE, val |-> PyBool(TRUE), end |-> i + 1]
      [] tok = "false" -> [ok |-> TRUE, val |-> PyBool(FALSE), end |-> i + 1]
      [] IsIntTok(tok) -> [ok |-> TRUE, val |-> PyInt(IntOfTok(tok)), end |-> i + 1]
      [] IsFloatTok(tok) -> [ok |-> TRUE, val |-> PyFloat(tok), end |-> i + 1]
      [] tok = "NaN" -> [ok |-> TRUE, val |-> PyFloat("nan"), end |-> i + 1]
      [] OTHER -> Fail

\* decoder.JSONObject from the first key at position i; pairs read so far in acc
JSONObject(s, i, acc) ==
    IF ~IsStrTok(Tok(s, i)) THEN Fail
    ELSE
      LET key == StrOfTok(Tok(s, i))
          c == SkipWs(s, i + 1)
      IN
      IF Tok(s, c) # ":" THEN Fail
      ELSE
        LET r == ScanOnce(s, SkipWs(s, c + 1)) IN
        IF ~r.ok THEN Fail
        ELSE
          LET e == SkipWs(s, r.end)
              pairs == DictSet(acc, key, r.val)
          IN
          CASE Tok(s, e) = "}" -> [ok |-> TRUE, val |-> PyDict(pairs), end |-> e + 1]
            [] Tok(s, e) = "," -> JSONObject(s, SkipWs(s, e + 1), pairs)
            [] OTHER -> Fail

\* decoder.JSONArray from the first element at position i
JSONArray(s, i, acc) ==
    LET r == ScanOnce(s, i) IN
    IF ~r.ok THEN Fail
    ELSE
      LET e == SkipWs(s, r.end)
          items == Append(acc, r.val)
      IN
      CASE Tok(s, e) = "]" -> [ok |-> TRUE, val |-> PyList(items), end |-> e + 1]
        [] Tok(s, e) = "," -> JSONArray(s, SkipWs(s, e + 1), items)
        [] OTHER -> Fail

\* json.loads(s): the value, or JSONDecodeError (no value, or extra data after it)
loads(s) ==
    LET r == ScanOnce(s, SkipWs(s, 1)) IN
    IF r.ok /\ SkipWs(s, r.end) = Len(s) + 1
    THEN [ok |-> TRUE, val |-> r.val]
    ELSE [ok |-> FALSE, error |-> "JSONDecodeError"]

-----------------------------------------------------------------------------
(* Objects *)

Ctxs == {"c1", "c2"}

Msgs == {"m1", "m2"}

Refs == {"d1", "d2"}

\* a Message not constructed, a heap cell not allocated
NoRef == "<none>"
NoType == "<none>"
Unallocated == [t |-> "<unallocated>"]

Constructed(m) == _data[m] # NoRef

\* Context c has been constructed
Live(c) == _time[c] # Unallocated

\* the object msg._data refers to
Payload(m) == heap[_data[m]]

Outcome(op, c, m, args, text, status, value) ==
    [op |-> op, ctx |-> c, msg |-> m, args |-> args, text |-> text,
     status |-> status, value |-> value]

Returned(op, c, m, args, value) == Outcome(op, c, m, args, <<>>, "ok", value)

Raised(op, c, m, args, error) == Outcome(op, c, m, args, <<>>, error, PyNone)

Called == calls < MaxCalls /\ calls' = calls + 1

MessageVars == <<heap, _type, _data>>

LogVars == <<_sent_messages, _sent_local_messages, _timer_actions>>

ContextVars == <<_time, _sent_messages, _sent_local_messages, _timer_actions>>

-----------------------------------------------------------------------------
(* Message *)

getitem_Default(m, key) ==
    /\ Called
    /\ Constructed(m)
    /\ result' = (CASE Payload(m).t = "dict" /\ key \in DictKeys(Payload(m).v) ->
                         Returned("getitem", NoRef, m, <<PyStr(key)>>, DictGet(Payload(m).v, key))
                    [] Payload(m).t = "dict" /\ key \notin DictKeys(Payload(m).v) ->
                         Returned("getitem", NoRef, m, <<PyStr(key)>>, PyNone)
                    [] OTHER ->
                         Raised("getitem", NoRef, m, <<PyStr(key)>>, "TypeError"))
    /\ UNCHANGED <<MessageVars, ContextVars, random, time0, rands>>

\* Message.__getitem__
getitem(m, key) ==
    /\ Called
    /\ Constructed(m)
    /\ result' = (CASE Payload(m).t = "dict" /\ key \in DictKeys(Payload(m).v) ->
                         Returned("getitem", NoRef, m, <<PyStr(key)>>, DictGet(Payload(m).v, key))
                    [] Payload(m).t = "dict" /\ key \notin DictKeys(Payload(m).v) ->
                         Raised("getitem", NoRef, m, <<PyStr(key)>>, "KeyError")
                    [] OTHER ->
                         \* a list, str, number, bool or None is not indexed by a str
                         Raised("getitem", NoRef, m, <<PyStr(key)>>, "TypeError"))
    /\ UNCHANGED <<MessageVars, ContextVars, random, time0, rands>>

setitem_KeepFirst(m, key, value) ==
    /\ Called
    /\ Constructed(m)
    /\ IF Payload(m).t = "dict"
       THEN /\ heap' = [heap EXCEPT ![_data[m]] =
                          IF key \in DictKeys(@.v) THEN @ ELSE PyDict(DictSet(@.v, key, value))]
            /\ result' = Returned("setitem", NoRef, m, <<PyStr(key), value>>, PyNone)
       ELSE /\ heap' = heap
            /\ result' = Raised("setitem", NoRef, m, <<PyStr(key), value>>, "TypeError")
    /\ UNCHANGED <<_type, _data, ContextVars, random, time0, rands>>

\* Message.__setitem__
setitem(m, key, value) ==
    /\ Called
    /\ Constructed(m)
    /\ IF Payload(m).t = "dict"
       THEN /\ heap' = [heap EXCEPT ![_data[m]] = PyDict(DictSet(@.v, key, value))]
            /\ result' = Returned("setitem", NoRef, m, <<PyStr(key), value>>, PyNone)
       ELSE /\ heap' = heap
            /\ result' = Raised("setitem", NoRef, m, <<PyStr(key), value>>, "TypeError")
    /\ UNCHANGED <<_type, _data, ContextVars, random, time0, rands>>

remove_Strict(m, key) ==
    /\ Called
    /\ Constructed(m)
    /\ CASE Payload(m).t = "dict" /\ key \in DictKeys(Payload(m).v) ->
              /\ heap' = [heap EXCEPT ![_data[m]] = PyDict(DictPop(@.v, key))]
              /\ result' = Returned("remove", NoRef, m, <<PyStr(key)>>, PyNone)
         [] Payload(m).t = "dict" /\ key \notin DictKeys(Payload(m).v) ->
              /\ heap' = heap
              /\ result' = Raised("remove", NoRef, m, <<PyStr(key)>>, "KeyError")
         [] OTHER ->
              /\ heap' = heap
              /\ result' = Raised("remove", NoRef, m, <<PyStr(key)>>, "TypeError")
    /\ UNCHANGED <<_type, _data, ContextVars, random, time0, rands>>

\* Message.remove
remove(m, key) ==
    /\ Called
    /\ Constructed(m)
    /\ CASE Payload(m).t = "dict" ->
              /\ heap' = [heap EXCEPT ![_data[m]] = PyDict(DictPop(@.v, key))]
              /\ result' = Returned("remove", NoRef, m, <<PyStr(key)>>, PyNone)
         [] Payload(m).t = "list" ->
              \* list.pop takes at most one argument
              /\ heap' = heap
              /\ result' = Raised("remove", NoRef, m, <<PyStr(key)>>, "TypeError")
         [] OTHER ->
              \* no pop attribute
              /\ heap' = heap
              /\ result' = Raised("remove", NoRef, m, <<PyStr(key)>>, "AttributeError")
    /\ UNCHANGED <<_type, _data, ContextVars, random, time0, rands>>

\* the reference of a newly made object
FreshRef == CHOOSE ref \in Refs : heap[ref] = Unallocated

\* Message.__init__ on a mapping just made: the Message holds a reference to it
Message(m, message_type, ref, data) ==
    /\ ~Constructed(m)
    /\ \E free \in Refs : heap[free] = Unallocated
    /\ heap' = [heap EXCEPT ![ref] = data]
    /\ _type' = [_type EXCEPT ![m] = message_type]
    /\ _data' = [_data EXCEPT ![m] = ref]

\* Message.from_json
from_json(m, message_type, json_str) ==
    /\ Called
    /\ ~Constructed(m)
    /\ LET r == loads(json_str) IN
       IF r.ok
       THEN /\ Message(m, message_type, FreshRef, r.val)
            /\ result' = Outcome("from_json", NoRef, m, <<PyStr(message_type)>>,
                                 json_str, "ok", PyNone)
       ELSE /\ result' = Outcome("from_json", NoRef, NoRef, <<PyStr(message_type)>>,
                                 json_str, r.error, PyNone)
            /\ UNCHANGED MessageVars
    /\ UNCHANGED <<ContextVars, random, time0, rands>>

-----------------------------------------------------------------------------
(* The generator of module random: process-wide, seeded from the operating
   system when the module is imported, never from the simulation *)

RandomModulus == 8

Seeds == {1, 6}

\* the repr of the float the generator yields in each state, all in [0, 1)
RandomReprs == <<"0.0", "0.125", "0.25", "0.375", "0.5", "0.625", "0.75", "0.875">>

\* random.uniform(0, 1) in generator state s
uniform(s) == PyFloat(RandomReprs[s + 1])

\* the generator state after one draw
Advance(s) == (5 * s + 3) % RandomModulus

-----------------------------------------------------------------------------
(* Context *)

send_EagerAppend(c, msg, to) ==
    /\ Called
    /\ Live(c)
    /\ Constructed(msg)
    /\ LET d == dumps(Payload(msg)) IN
       CASE ~IsStr(to) ->
              /\ result' = Raised("send", c, msg, <<to>>, "TypeError")
              /\ UNCHANGED _sent_messages
         [] IsStr(to) /\ ~d.ok ->
              /\ result' = Raised("send", c, msg, <<to>>, d.error)
              /\ _sent_messages' =
                    [_sent_messages EXCEPT ![c] = Append(@, <<_type[msg], <<>>, to>>)]
         [] OTHER ->
              /\ _sent_messages' =
                    [_sent_messages EXCEPT ![c] = Append(@, <<_type[msg], d.text, to>>)]
              /\ result' = Returned("send", c, msg, <<to>>, PyNone)
    /\ UNCHANGED <<MessageVars, _time, _sent_local_messages, _timer_actions,
                   random, time0, rands>>

send_Echo(c, msg, to) ==
    /\ Called
    /\ Live(c)
    /\ Constructed(msg)
    /\ LET d == dumps(Payload(msg)) IN
       CASE ~IsStr(to) ->
              /\ result' = Raised("send", c, msg, <<to>>, "TypeError")
              /\ UNCHANGED <<_sent_messages, _sent_local_messages>>
         [] IsStr(to) /\ ~d.ok ->
              /\ result' = Raised("send", c, msg, <<to>>, d.error)
              /\ UNCHANGED <<_sent_messages, _sent_local_messages>>
         [] OTHER ->
              /\ _sent_messages' =
                    [_sent_messages EXCEPT ![c] = Append(@, <<_type[msg], d.text, to>>)]
              /\ _sent_local_messages' =
                    [_sent_local_messages EXCEPT ![c] = Append(@, <<_type[msg], d.text>>)]
              /\ result' = Returned("send", c, msg, <<to>>, PyNone)
    /\ UNCHANGED <<MessageVars, _time, _timer_actions, random, time0, rands>>

send_SharedLog(c, msg, to) ==
    /\ Called
    /\ Live(c)
    /\ Constructed(msg)
    /\ LET d == dumps(Payload(msg)) IN
       CASE ~IsStr(to) ->
              /\ result' = Raised("send", c, msg, <<to>>, "TypeError")
              /\ UNCHANGED _sent_messages
         [] IsStr(to) /\ ~d.ok ->
              /\ result' = Raised("send", c, msg, <<to>>, d.error)
              /\ UNCHANGED _sent_messages
         [] OTHER ->
              /\ _sent_messages' =
                    [other \in Ctxs |-> Append(_sent_messages[other], <<_type[msg], d.text, to>>)]
              /\ result' = Returned("send", c, msg, <<to>>, PyNone)
    /\ UNCHANGED <<MessageVars, _time, _sent_local_messages, _timer_actions,
                   random, time0, rands>>

send_Prepend(c, msg, to) ==
    /\ Called
    /\ Live(c)
    /\ Constructed(msg)
    /\ LET d == dumps(Payload(msg)) IN
       CASE ~IsStr(to) ->
              /\ result' = Raised("send", c, msg, <<to>>, "TypeError")
              /\ UNCHANGED _sent_messages
         [] IsStr(to) /\ ~d.ok ->
              /\ result' = Raised("send", c, msg, <<to>>, d.error)
              /\ UNCHANGED _sent_messages
         [] OTHER ->
              /\ _sent_messages' =
                    [_sent_messages EXCEPT ![c] = <<<<_type[msg], d.text, to>>>> \o @]
              /\ result' = Returned("send", c, msg, <<to>>, PyNone)
    /\ UNCHANGED <<MessageVars, _time, _sent_local_messages, _timer_actions,
                   random, time0, rands>>

\* Context.send
send(c, msg, to) ==
    /\ Called
    /\ Live(c)
    /\ Constructed(msg)
    /\ LET d == dumps(Payload(msg)) IN
       CASE ~IsStr(to) ->
              /\ result' = Raised("send", c, msg, <<to>>, "TypeError")
              /\ UNCHANGED _sent_messages
         [] IsStr(to) /\ ~d.ok ->
              /\ result' = Raised("send", c, msg, <<to>>, d.error)
              /\ UNCHANGED _sent_messages
         [] OTHER ->
              /\ _sent_messages' =
                    [_sent_messages EXCEPT ![c] = Append(@, <<_type[msg], d.text, to>>)]
              /\ result' = Returned("send", c, msg, <<to>>, PyNone)
    /\ UNCHANGED <<MessageVars, _time, _sent_local_messages, _timer_actions,
                   random, time0, rands>>

send_local_SendLog(c, msg) ==
    /\ Called
    /\ Live(c)
    /\ Constructed(msg)
    /\ LET d == dumps(Payload(msg)) IN
       IF d.ok
       THEN /\ _sent_messages' =
                  [_sent_messages EXCEPT ![c] = Append(@, <<_type[msg], d.text>>)]
            /\ result' = Returned("send_local", c, msg, <<>>, PyNone)
       ELSE /\ result' = Raised("send_local", c, msg, <<>>, d.error)
            /\ UNCHANGED _sent_messages
    /\ UNCHANGED <<MessageVars, _time, _sent_local_messages, _timer_actions,
                   random, time0, rands>>

\* Context.send_local
send_local(c, msg) ==
    /\ Called
    /\ Live(c)
    /\ Constructed(msg)
    /\ LET d == dumps(Payload(msg)) IN
       IF d.ok
       THEN /\ _sent_local_messages' =
                  [_sent_local_messages EXCEPT ![c] = Append(@, <<_type[msg], d.text>>)]
            /\ result' = Returned("send_local", c, msg, <<>>, PyNone)
       ELSE /\ result' = Raised("send_local", c, msg, <<>>, d.error)
            /\ UNCHANGED _sent_local_messages
    /\ UNCHANGED <<MessageVars, _time, _sent_messages, _timer_actions,
                   random, time0, rands>>

set_timer_NonNegative(c, timer_id, delay) ==
    /\ Called
    /\ Live(c)
    /\ CASE ~(IsStr(timer_id) /\ IsNumber(delay)) ->
              /\ result' = Raised("set_timer", c, NoRef, <<timer_id, delay>>, "TypeError")
              /\ UNCHANGED _timer_actions
         [] IsStr(timer_id) /\ delay.t = "int" /\ delay.v < 0 ->
              /\ result' = Raised("set_timer", c, NoRef, <<timer_id, delay>>, "ValueError")
              /\ UNCHANGED _timer_actions
         [] OTHER ->
              /\ _timer_actions' =
                    [_timer_actions EXCEPT ![c] = Append(@, <<"s", timer_id, delay>>)]
              /\ result' = Returned("set_timer", c, NoRef, <<timer_id, delay>>, PyNone)
    /\ UNCHANGED <<MessageVars, _time, _sent_messages, _sent_local_messages,
                   random, time0, rands>>

\* the log with the last "s" entry of timer_id replaced, or with the entry added
Reschedule(log, timer_id, delay) ==
    IF \E i \in 1..Len(log) : log[i][1] = "s" /\ log[i][2] = timer_id
    THEN [i \in 1..Len(log) |->
             IF log[i][1] = "s" /\ log[i][2] = timer_id THEN <<"s", timer_id, delay>>
             ELSE log[i]]
    ELSE Append(log, <<"s", timer_id, delay>>)

set_timer_Dedup(c, timer_id, delay) ==
    /\ Called
    /\ Live(c)
    /\ IF IsStr(timer_id) /\ IsNumber(delay)
       THEN /\ _timer_actions' =
                  [_timer_actions EXCEPT ![c] = Reschedule(@, timer_id, delay)]
            /\ result' = Returned("set_timer", c, NoRef, <<timer_id, delay>>, PyNone)
       ELSE /\ result' = Raised("set_timer", c, NoRef, <<timer_id, delay>>, "TypeError")
            /\ UNCHANGED _timer_actions
    /\ UNCHANGED <<MessageVars, _time, _sent_messages, _sent_local_messages,
                   random, time0, rands>>

\* Context.set_timer
set_timer(c, timer_id, delay) ==
    /\ Called
    /\ Live(c)
    /\ IF IsStr(timer_id) /\ IsNumber(delay)
       THEN /\ _timer_actions' =
                  [_timer_actions EXCEPT ![c] = Append(@, <<"s", timer_id, delay>>)]
            /\ result' = Returned("set_timer", c, NoRef, <<timer_id, delay>>, PyNone)
       ELSE /\ result' = Raised("set_timer", c, NoRef, <<timer_id, delay>>, "TypeError")
            /\ UNCHANGED _timer_actions
    /\ UNCHANGED <<MessageVars, _time, _sent_messages, _sent_local_messages,
                   random, time0, rands>>

cancel_timer_NoCheck(c, timer_id) ==
    /\ Called
    /\ Live(c)
    /\ _timer_actions' =
          [_timer_actions EXCEPT ![c] = Append(@, <<"c", timer_id, PyInt(0)>>)]
    /\ result' = Returned("cancel_timer", c, NoRef, <<timer_id>>, PyNone)
    /\ UNCHANGED <<MessageVars, _time, _sent_messages, _sent_local_messages,
                   random, time0, rands>>

cancel_timer_RemoveSet(c, timer_id) ==
    /\ Called
    /\ Live(c)
    /\ IF IsStr(timer_id)
       THEN /\ _timer_actions' =
                  [_timer_actions EXCEPT ![c] =
                      SelectSeq(@, LAMBDA e : ~(e[1] = "s" /\ e[2] = timer_id))]
            /\ result' = Returned("cancel_timer", c, NoRef, <<timer_id>>, PyNone)
       ELSE /\ result' = Raised("cancel_timer", c, NoRef, <<timer_id>>, "TypeError")
            /\ UNCHANGED _timer_actions
    /\ UNCHANGED <<MessageVars, _time, _sent_messages, _sent_local_messages,
                   random, time0, rands>>

cancel_timer_OnlyIfSet(c, timer_id) ==
    /\ Called
    /\ Live(c)
    /\ IF IsStr(timer_id)
            /\ \E i \in 1..Len(_timer_actions[c]) :
                   _timer_actions[c][i][1] = "s" /\ _timer_actions[c][i][2] = timer_id
       THEN /\ _timer_actions' =
                  [_timer_actions EXCEPT ![c] = Append(@, <<"c", timer_id, PyInt(0)>>)]
            /\ result' = Returned("cancel_timer", c, NoRef, <<timer_id>>, PyNone)
       ELSE /\ result' = Raised("cancel_timer", c, NoRef, <<timer_id>>,
                                IF IsStr(timer_id) THEN "KeyError" ELSE "TypeError")
            /\ UNCHANGED _timer_actions
    /\ UNCHANGED <<MessageVars, _time, _sent_messages, _sent_local_messages,
                   random, time0, rands>>

\* Context.cancel_timer
cancel_timer(c, timer_id) ==
    /\ Called
    /\ Live(c)
    /\ IF IsStr(timer_id)
       THEN /\ _timer_actions' =
                  [_timer_actions EXCEPT ![c] = Append(@, <<"c", timer_id, PyInt(0)>>)]
            /\ result' = Returned("cancel_timer", c, NoRef, <<timer_id>>, PyNone)
       ELSE /\ result' = Raised("cancel_timer", c, NoRef, <<timer_id>>, "TypeError")
            /\ UNCHANGED _timer_actions
    /\ UNCHANGED <<MessageVars, _time, _sent_messages, _sent_local_messages,
                   random, time0, rands>>

time_Elapsed(c) ==
    /\ Called
    /\ Live(c)
    /\ result' = Returned("time", c, NoRef, <<>>,
                          IF _timer_actions[c] # <<>> THEN _timer_actions[c][1][3]
                          ELSE _time[c])
    /\ UNCHANGED <<MessageVars, ContextVars, random, time0, rands>>

\* Context.time
time(c) ==
    /\ Called
    /\ Live(c)
    /\ result' = Returned("time", c, NoRef, <<>>, _time[c])
    /\ UNCHANGED <<MessageVars, ContextVars, random, time0, rands>>

\* Context.rand
rand(c) ==
    /\ Called
    /\ Live(c)
    /\ result' = Returned("rand", c, NoRef, <<>>, uniform(random))
    /\ random' = Advance(random)
    /\ rands' = [rands EXCEPT ![c] = Append(@, uniform(random))]
    /\ UNCHANGED <<MessageVars, ContextVars, time0>>

-----------------------------------------------------------------------------------------------------------------------------------------------------
(* Inputs *)

Times == {PyFloat("10.0"), PyInt(0)}

Keys == {"x", "y"}

Values == {PyInt(2), PySet}

Dests == {PyStr("node2"), PyInt(2)}

TimerIds == {PyStr("t1"), PyInt(1)}

Delays == {PyFloat("5.0"), PyStr("5")}

NoCall == Outcome("<none>", NoRef, NoRef, <<>>, <<>>, "ok", PyNone)

\* Context.__init__ for the Contexts of C, with the times given
InitContexts(C) ==
    /\ time0 \in {f \in [Ctxs -> Times \cup {Unallocated}] :
                     \A c \in Ctxs : f[c] = Unallocated <=> c \notin C}
    /\ _time = time0
    /\ _sent_messages = [c \in Ctxs |-> <<>>]
    /\ _sent_local_messages = [c \in Ctxs |-> <<>>]
    /\ _timer_actions = [c \in Ctxs |-> <<>>]
    /\ random \in Seeds
    /\ rands = [c \in Ctxs |-> <<>>]
    /\ result = NoCall
    /\ calls = 0

\* m1 = Message("ping", {"x": 1}); m2 = Message("req", d) with d the same
\* mapping or a new empty one
InitMessages ==
    \E ref \in Refs :
       /\ heap = [r \in Refs |-> IF r = "d1" THEN PyDict(<<<<"x", PyInt(1)>>>>)
                                  ELSE PyDict(<<>>)]
       /\ _type = [m \in Msgs |-> IF m = "m1" THEN "ping" ELSE "req"]
       /\ _data = [m \in Msgs |-> IF m = "m1" THEN "d1" ELSE ref]

\* no Message constructed yet
NoMessages ==
    /\ heap = [r \in Refs |-> Unallocated]
    /\ _type = [m \in Msgs |-> NoType]
    /\ _data = [m \in Msgs |-> NoRef]

-----------------------------------------------------------------------------
(* One invocation of a node callback: the engine has constructed one Context,
   the node holds two Messages and uses every operation of both classes *)

Init == InitContexts({"c1"}) /\ InitMessages

Next ==
    \/ \E m \in Msgs, k \in Keys : getitem(m, k)
    \/ \E m \in Msgs, k \in Keys, v \in Values : setitem(m, k, v)
    \/ \E m \in Msgs, k \in Keys : remove(m, k)
    \/ \E c \in Ctxs, m \in Msgs, to \in Dests : send(c, m, to)
    \/ \E c \in Ctxs, m \in Msgs : send_local(c, m)
    \/ \E c \in Ctxs, id \in TimerIds, d \in Delays : set_timer(c, id, d)
    \/ \E c \in Ctxs, id \in TimerIds : cancel_timer(c, id)
    \/ \E c \in Ctxs : time(c)
    \/ \E c \in Ctxs : rand(c)

Spec == Init /\ [][Next]_vars

-----------------------------------------------------------------------------
(* The timer operations over every kind of argument *)

WideTimerIds == {PyStr("t1"), PyStr("t2"), PyInt(1)}

WideDelays ==
    {PyInt(5), PyFloat("5.0"), PyInt(0), PyInt(-1),
     PyBool(TRUE), PyStr("5"), PyNone, PyList(<<>>), PyDict(<<>>)}

InitTimer == InitContexts({"c1"}) /\ NoMessages

NextTimer ==
    \/ \E c \in Ctxs, id \in WideTimerIds, d \in WideDelays : set_timer(c, id, d)
    \/ \E c \in Ctxs, id \in WideTimerIds : cancel_timer(c, id)
    \/ \E c \in Ctxs : time(c)

SpecTimer == InitTimer /\ [][NextTimer]_vars

-----------------------------------------------------------------------------
(* Two invocations side by side in one process: two Contexts *)

InitTwo == InitContexts(Ctxs) /\ InitMessages

NextTwo ==
    \/ \E c \in Ctxs, to \in Dests : send(c, "m1", to)
    \/ \E c \in Ctxs : send_local(c, "m1")
    \/ \E c \in Ctxs, id \in TimerIds : set_timer(c, id, PyFloat("5.0"))
    \/ \E c \in Ctxs, id \in TimerIds : cancel_timer(c, id)
    \/ \E c \in Ctxs : time(c)
    \/ \E c \in Ctxs : rand(c)

SpecTwo == InitTwo /\ [][NextTwo]_vars

-----------------------------------------------------------------------------
(* An inbound message: JSON text parsed into a Message, then read *)

MessageTypes == {"req"}

Alphabet == {"{", "}", ":", ",", Quote("x"), "1"}

RECURSIVE TextsOfLen(_)
TextsOfLen(n) ==
    IF n = 0 THEN {<<>>}
    ELSE {Append(s, tok) : s \in TextsOfLen(n - 1), tok \in Alphabet}

\* texts beyond the enumerated ones: whitespace, two members, a repeated key,
\* arrays, nesting, the other literals, text that is no JSON
SampleTexts ==
    {<<"{", Quote("x"), ":", WS, "1", ",", WS, Quote("y"), ":", WS, Quote("a"), "}">>,
     <<"{", Quote("x"), ":", "1", ",", Quote("x"), ":", "2", "}">>,
     <<"{", Quote("y"), ":", "[", "1", ",", "null", "]", ",", Quote("x"), ":", "{", "}", "}">>,
     <<WS, "{", WS, "}", WS>>,
     <<"[", "]">>, <<"[", "1", "]">>, <<"[", "{", "}", "]">>, <<"[", "1", ",", "]">>,
     <<"[", "1", ",", WS, Quote("x"), "]">>, <<"{", Quote("x"), ":", "[", "}">>,
     <<Quote("x")>>,
     <<"{", Quote("x"), ":", "NaN", "}">>,
     <<"{", Quote("x"), ":", "1", ",", "}">>,
     <<"null">>, <<"true">>, <<"false">>, <<"2.5">>, <<"NaN">>,
     <<"not", WS, "json">>}

Texts == UNION {TextsOfLen(n) : n \in 0..MaxTextLen} \cup SampleTexts

InitParse == InitContexts({}) /\ NoMessages

NextParse ==
    \* the first call parses the inbound text
    \/ calls = 0 /\ \E ty \in MessageTypes, text \in Texts : from_json("m1", ty, text)
    \/ \E m \in Msgs, k \in Keys : getitem(m, k)

SpecParse == InitParse /\ [][NextParse]_vars

-----------------------------------------------------------------------------
(* Properties.  Every step is one call, and result' describes it: its
   operation, receiver, arguments and outcome. *)

IsPrefix(s, t) == Len(s) <= Len(t) /\ \A i \in 1..Len(s) : t[i] = s[i]

Last(s) == s[Len(s)]

\* the payload is JSON-representable
Representable(m) == Serializable(Payload(m))

\* C1: a send of a Message with a JSON-representable payload to a string
\* destination succeeds and adds exactly one entry at the end of the send log:
\* the type, a text that reads back as the payload the Message has at the
\* call, and the destination.  No later call of any operation changes an entry
\* already in the send log.
C1_SendSnapshot ==
    [][/\ \A c \in Ctxs : IsPrefix(_sent_messages[c], _sent_messages'[c])
       /\ (result'.op = "send" /\ IsStr(result'.args[1]) /\ Representable(result'.msg)) =>
             LET c == result'.ctx
                 m == result'.msg
             IN  /\ result'.status = "ok"
                 /\ Len(_sent_messages'[c]) = Len(_sent_messages[c]) + 1
                 /\ Last(_sent_messages'[c])[1] = _type[m]
                 /\ loads(Last(_sent_messages'[c])[2]) = [ok |-> TRUE, val |-> Payload(m)]
                 /\ Last(_sent_messages'[c])[3] = result'.args[1]]_vars

\* a Message was sent and then changed: the recorded entry still reads as the
\* payload of the send, which the Message no longer has
C1_Witness ==
    /\ result.op = "setitem" /\ result.status = "ok" /\ result.msg = "m1"
    /\ Len(_sent_messages["c1"]) = 1
    /\ _sent_messages["c1"][1][1] = "ping"
    /\ loads(_sent_messages["c1"][1][2]).ok
    /\ loads(_sent_messages["c1"][1][2]).val # Payload("m1")

\* C2: a send_local of a Message with a JSON-representable payload succeeds
\* and adds exactly one entry at the end of the local-delivery log: the type
\* and a text that reads back as the payload the Message has at the call.  No
\* later call changes an entry already in the log, so two sends of one Message
\* around a change record the two payloads.
C2_SendLocalSnapshot ==
    [][/\ \A c \in Ctxs : IsPrefix(_sent_local_messages[c], _sent_local_messages'[c])
       /\ (result'.op = "send_local" /\ Representable(result'.msg)) =>
             LET c == result'.ctx
                 m == result'.msg
             IN  /\ result'.status = "ok"
                 /\ Len(_sent_local_messages'[c]) = Len(_sent_local_messages[c]) + 1
                 /\ Last(_sent_local_messages'[c])[1] = _type[m]
                 /\ loads(Last(_sent_local_messages'[c])[2]) =
                       [ok |-> TRUE, val |-> Payload(m)]]_vars

\* m1 sent locally, changed, sent locally again: two entries, two payloads
C2_Witness ==
    /\ result.op = "send_local" /\ result.status = "ok" /\ result.msg = "m1"
    /\ Len(_sent_local_messages["c1"]) = 2
    /\ _sent_local_messages["c1"][1][1] = "ping"
    /\ _sent_local_messages["c1"][2][1] = "ping"
    /\ _sent_local_messages["c1"][1][2] # _sent_local_messages["c1"][2][2]
    /\ loads(_sent_local_messages["c1"][2][2]).val = Payload("m1")

\* C3: set_timer with a string timer id and an int or float delay succeeds and
\* adds exactly one entry ("s", timer id, delay) at the end of the timer-action
\* log, whatever the log holds already: earlier entries stay, in order, also
\* those of the same timer id.
C3_SetTimerAppends ==
    [][(/\ result'.op = "set_timer"
        /\ IsStr(result'.args[1])
        /\ result'.args[2].t \in {"int", "float"}) =>
             LET c == result'.ctx IN
             /\ result'.status = "ok"
             /\ _timer_actions'[c] =
                   Append(_timer_actions[c], <<"s", result'.args[1], result'.args[2]>>)]_vars

\* three calls with one timer id: three "s" entries, in call order
C3_Witness ==
    /\ Len(_timer_actions["c1"]) = 3
    /\ \A i \in 1..3 : /\ _timer_actions["c1"][i][1] = "s"
                       /\ _timer_actions["c1"][i][2] = PyStr("t1")
    /\ _timer_actions["c1"][1][3] = PyInt(5)
    /\ _timer_actions["c1"][2][3] = PyFloat("5.0")
    /\ _timer_actions["c1"][3][3] = PyInt(5)

\* C4: cancel_timer with a string timer id succeeds and adds exactly one entry
\* ("c", timer id, 0) at the end of the timer-action log, whether the log
\* holds a set of that timer, a cancel of it, or nothing about it.
C4_CancelAlwaysAppends ==
    [][(result'.op = "cancel_timer" /\ IsStr(result'.args[1])) =>
             LET c == result'.ctx IN
             /\ result'.status = "ok"
             /\ _timer_actions'[c] =
                   Append(_timer_actions[c], <<"c", result'.args[1], PyInt(0)>>)]_vars

\* t2 cancelled twice, never set: the log holds a set of t1 and two cancels of t2
C4_Witness ==
    /\ result.op = "cancel_timer" /\ result.status = "ok"
    /\ _timer_actions["c1"] =
          << <<"s", PyStr("t1"), PyInt(0)>>,
             <<"c", PyStr("t2"), PyInt(0)>>,
             <<"c", PyStr("t2"), PyInt(0)>> >>

\* C5: in every state the time of a Context is the one it was constructed
\* with, and a call of time() returned that time.
C5_TimeFixed ==
    /\ \A c \in Ctxs : _time[c] = time0[c]
    /\ result.op = "time" => result.value = time0[result.ctx]

\* time() called after a send and a set_timer were recorded
C5_Witness ==
    /\ result.op = "time" /\ result.ctx = "c1"
    /\ Len(_sent_messages["c1"]) = 1
    /\ Len(_timer_actions["c1"]) = 1
    /\ result.value = PyFloat("10.0")

\* C6: rand() draws from nothing but a seed given to the Context, so two
\* Contexts constructed with the same time that have each made the same calls,
\* rand() and nothing else, the same number of times, have been returned the
\* same values.
C6_RandDeterministic ==
    \A c, d \in Ctxs :
        (/\ c # d
         /\ Live(c) /\ Live(d)
         /\ time0[c] = time0[d]
         /\ Len(rands[c]) = Len(rands[d])
         /\ calls = Len(rands[c]) + Len(rands[d]))
        => rands[c] = rands[d]

\* the text is JSON and its top-level value is an object
IsObjectText(text) == loads(text).ok /\ loads(text).val.t = "dict"

\* C7: from_json of a text that is no JSON, or whose top-level value is no
\* object, fails with a decode error and constructs no Message.
C7_ParseRejectsNonObject ==
    (result.op = "from_json" /\ ~IsObjectText(result.text)) =>
        /\ result.status = "JSONDecodeError"
        /\ \A m \in Msgs : ~Constructed(m)

\* C8: set_timer with a timer id that is no string, or a delay that is no int
\* and no float (a string, a boolean, None, a list, a dict), fails with
\* TypeError and leaves the three logs as they were.
C8_SetTimerTypeChecked ==
    [][(/\ result'.op = "set_timer"
        /\ \/ ~IsStr(result'.args[1])
           \/ result'.args[2].t \notin {"int", "float"}) =>
             /\ result'.status = "TypeError"
             /\ UNCHANGED LogVars]_vars

\* C9: send with a destination that is no string, and cancel_timer with a
\* timer id that is no string, fail with TypeError and leave the three logs as
\* they were.
C9_IdentifierTypeChecked ==
    [][(result'.op \in {"send", "cancel_timer"} /\ ~IsStr(result'.args[1])) =>
             /\ result'.status = "TypeError"
             /\ UNCHANGED LogVars]_vars

\* after a send that was recorded, a send to the destination 2 failed and the
\* log holds the one entry
C9_Witness ==
    /\ result.op = "send" /\ result.status = "TypeError"
    /\ result.args = <<PyInt(2)>>
    /\ Len(_sent_messages["c1"]) = 1
    /\ _sent_messages["c1"][1][3] = PyStr("node2")

\* C10: from_json of a JSON object text constructs a Message of the type
\* given; a get right after it returns, for a key of the object, the value the
\* text gives that key, and fails with KeyError for any other key.  For the
\* text {"x":1} and the key x the value is the int 1.
C10_ParseRoundTrip ==
    [][/\ (result'.op = "from_json" /\ IsObjectText(result'.text)) =>
             /\ result'.status = "ok"
             /\ _data'[result'.msg] # NoRef
             /\ _type'[result'.msg] = result'.args[1].v
       /\ (/\ result.op = "from_json" /\ IsObjectText(result.text)
           /\ result'.op = "getitem" /\ result'.msg = result.msg) =>
             LET parsed == loads(result.text).val.v
                 key == result'.args[1].v
             IN  /\ key \in DictKeys(parsed) =>
                       /\ result'.status = "ok"
                       /\ result'.value = DictGet(parsed, key)
                 /\ key \notin DictKeys(parsed) => result'.status = "KeyError"
                 /\ (result.text = <<"{", Quote("x"), ":", "1", "}">> /\ key = "x") =>
                       result'.value = PyInt(1)]_vars

\* {"x":1} parsed as a "req", then get("x") returned 1
C10_Witness ==
    /\ result.op = "getitem" /\ result.status = "ok" /\ result.msg = "m1"
    /\ result.args = <<PyStr("x")>>
    /\ result.value = PyInt(1)
    /\ _type["m1"] = "req"
    /\ calls = 2
    /\ Payload("m1") = PyDict(<< <<"x", PyInt(1)>> >>)


\* the members of a dict other than key, in their order
OtherMembers(d, key) == SelectSeq(d, LAMBDA p : p[1] # key)

\* the same call on the same Message as the one before
SameReceiver == result'.msg = result.msg /\ result'.args[1] = result.args[1]

\* C11: remove(key) on a Message returns without error whether the key is
\* present or not; afterwards the key is absent (a get of it right after fails
\* with KeyError), the other members and their order, and the type, are as
\* before; with the key absent the payload is as before, so a second remove
\* changes nothing.
C11_RemoveDeletes ==
    [][/\ (result'.op = "remove" /\ Payload(result'.msg).t = "dict") =>
             LET m == result'.msg
                 key == result'.args[1].v
                 before == Payload(m).v
                 after == heap'[_data'[m]].v
             IN  /\ result'.status = "ok"
                 /\ key \notin DictKeys(after)
                 /\ after = OtherMembers(before, key)
                 /\ _type' = _type /\ _data' = _data
                 /\ key \notin DictKeys(before) => heap' = heap
       /\ (result.op = "remove" /\ result'.op = "getitem" /\ SameReceiver) =>
             result'.status = "KeyError"
       /\ (result.op = "remove" /\ result'.op = "remove" /\ SameReceiver) =>
             result'.status = "ok" /\ heap' = heap]_vars

\* y set, x removed, x removed again: the second remove returned and y is kept
C11_Witness ==
    /\ result.op = "remove" /\ result.status = "ok" /\ result.msg = "m1"
    /\ result.args = <<PyStr("x")>>
    /\ calls = 3
    /\ Payload("m1") = PyDict(<< <<"y", PyInt(2)>> >>)
    /\ _type["m1"] = "ping"

\* C12: a get of an absent key fails with KeyError and leaves the payload as
\* it was; set(key, value) returns with the key holding the value, added last
\* when it was absent and in its place when present, the other members as
\* before; a get of the key right after returns the value.
C12_GetSet ==
    [][/\ (/\ result'.op = "getitem" /\ Payload(result'.msg).t = "dict"
           /\ result'.args[1].v \notin DictKeys(Payload(result'.msg).v)) =>
             result'.status = "KeyError" /\ heap' = heap
       /\ (result'.op = "setitem" /\ Payload(result'.msg).t = "dict") =>
             LET m == result'.msg
                 key == result'.args[1].v
                 before == Payload(m).v
                 after == heap'[_data'[m]].v
             IN  /\ result'.status = "ok"
                 /\ key \in DictKeys(after)
                 /\ DictGet(after, key) = result'.args[2]
                 /\ OtherMembers(after, key) = OtherMembers(before, key)
                 /\ Len(after) = Len(before) + (IF key \in DictKeys(before) THEN 0 ELSE 1)
       /\ (result.op = "setitem" /\ result'.op = "getitem" /\ SameReceiver) =>
             result'.status = "ok" /\ result'.value = result.args[2]]_vars

\* x, present with 1, set to 2 and read back: an overwrite
C12_Witness ==
    /\ result.op = "getitem" /\ result.status = "ok" /\ result.msg = "m1"
    /\ result.args = <<PyStr("x")>>
    /\ result.value = PyInt(2)
    /\ Payload("m1") = PyDict(<< <<"x", PyInt(2)>> >>)
    /\ calls = 3


\* C13: a Context starts with three empty logs, and every call of every
\* operation leaves each log of each Context an extension of what it was: no
\* entry is removed, moved or rewritten.
C13_AppendOnly ==
    /\ \A c \in Ctxs : /\ _sent_messages[c] = <<>>
                       /\ _sent_local_messages[c] = <<>>
                       /\ _timer_actions[c] = <<>>
    /\ [][\A c \in Ctxs : /\ IsPrefix(_sent_messages[c], _sent_messages'[c])
                          /\ IsPrefix(_sent_local_messages[c], _sent_local_messages'[c])
                          /\ IsPrefix(_timer_actions[c], _timer_actions'[c])]_vars

\* three calls, one entry in each log
C13_Witness ==
    /\ calls = 3
    /\ Len(_sent_messages["c1"]) = 1
    /\ Len(_sent_local_messages["c1"]) = 1
    /\ _timer_actions["c1"] = << <<"c", PyStr("t1"), PyInt(0)>> >>

\* C14: the timer-action log is the sequence of the set_timer and cancel_timer
\* calls that returned, in call order, each with its opcode: a set_timer that
\* returns adds ("s", id, delay) at the end, a cancel_timer that returns adds
\* ("c", id, 0) at the end, and no other call changes the log.
C14_TimerCallOrder ==
    [][\A c \in Ctxs :
         _timer_actions'[c] =
            CASE result'.ctx = c /\ result'.op = "set_timer" /\ result'.status = "ok" ->
                    Append(_timer_actions[c], <<"s", result'.args[1], result'.args[2]>>)
              [] result'.ctx = c /\ result'.op = "cancel_timer" /\ result'.status = "ok" ->
                    Append(_timer_actions[c], <<"c", result'.args[1], PyInt(0)>>)
              [] OTHER -> _timer_actions[c]]_vars

\* set t1, cancel t1, set t1
C14_Witness ==
    _timer_actions["c1"] =
        << <<"s", PyStr("t1"), PyFloat("5.0")>>,
           <<"c", PyStr("t1"), PyInt(0)>>,
           <<"s", PyStr("t1"), PyFloat("5.0")>> >>


\* C15: a call on one Context leaves the three logs and the time of every
\* other Context as they were, however the calls on the Contexts interleave.
C15_ContextLocal ==
    [][\A c \in Ctxs :
         c # result'.ctx =>
            /\ _sent_messages'[c] = _sent_messages[c]
            /\ _sent_local_messages'[c] = _sent_local_messages[c]
            /\ _timer_actions'[c] = _timer_actions[c]
            /\ _time'[c] = _time[c]]_vars

\* calls on c1 and c2 interleaved: each log holds its own Context's entries
C15_Witness ==
    /\ calls = 3
    /\ result.ctx = "c1" /\ result.op = "send_local" /\ result.status = "ok"
    /\ Len(_sent_messages["c1"]) = 1 /\ _sent_messages["c2"] = <<>>
    /\ _timer_actions["c1"] = <<>> /\ Len(_timer_actions["c2"]) = 1
    /\ Len(_sent_local_messages["c1"]) = 1 /\ _sent_local_messages["c2"] = <<>>


\* log' is log with one entry added at the end
OneMore(log, c) == Len(log'[c]) = Len(log[c]) + 1 /\ IsPrefix(log[c], log'[c])

\* C16: a send that returns adds one entry to the send log of its Context and
\* leaves the other two logs as they were; send_local likewise for the
\* local-delivery log, set_timer and cancel_timer for the timer-action log;
\* time() and rand() leave the three logs as they were.  None of them changes
\* the time of the Context or a Message.
C16_Frame ==
    [][LET c == result'.ctx
           ok == result'.status = "ok"
       IN  /\ (result'.op = "send" /\ ok) =>
                 /\ OneMore(_sent_messages, c)
                 /\ UNCHANGED <<_sent_local_messages, _timer_actions>>
           /\ (result'.op = "send_local" /\ ok) =>
                 /\ OneMore(_sent_local_messages, c)
                 /\ UNCHANGED <<_sent_messages, _timer_actions>>
           /\ (result'.op \in {"set_timer", "cancel_timer"} /\ ok) =>
                 /\ OneMore(_timer_actions, c)
                 /\ UNCHANGED <<_sent_messages, _sent_local_messages>>
           /\ result'.op \in {"time", "rand"} => ok /\ UNCHANGED LogVars
           /\ result'.op \in {"send", "send_local", "set_timer", "cancel_timer",
                              "time", "rand"} =>
                 /\ UNCHANGED <<_time, MessageVars>>
                 /\ \A other \in Ctxs \ {c} :
                       /\ _sent_messages'[other] = _sent_messages[other]
                       /\ _sent_local_messages'[other] = _sent_local_messages[other]
                       /\ _timer_actions'[other] = _timer_actions[other]]_vars

\* at time 10.0: send(Message("ping", {}), "node2"), then set_timer("t1", 5.0)
C16_Witness ==
    /\ time0["c1"] = PyFloat("10.0")
    /\ result.op = "set_timer" /\ result.status = "ok"
    /\ _sent_messages["c1"] = << <<"ping", <<"{", "}">>, PyStr("node2")>> >>
    /\ _timer_actions["c1"] = << <<"s", PyStr("t1"), PyFloat("5.0")>> >>
    /\ _sent_local_messages["c1"] = <<>>


\* C17: whenever the last call was set_timer with a string timer id and an int
\* or float delay, zero and negative ones included, it returned, and the last
\* entry of the timer-action log carries that very delay.
C17_NoSignCheck ==
    (/\ result.op = "set_timer"
     /\ IsStr(result.args[1])
     /\ result.args[2].t \in {"int", "float"}) =>
        /\ result.status = "ok"
        /\ _timer_actions[result.ctx] # <<>>
        /\ Last(_timer_actions[result.ctx]) = <<"s", result.args[1], result.args[2]>>

\* set_timer("t1", 0), then set_timer("t1", -1)
C17_Witness ==
    /\ result.op = "set_timer" /\ result.status = "ok"
    /\ _timer_actions["c1"] =
          << <<"s", PyStr("t1"), PyInt(0)>>, <<"s", PyStr("t1"), PyInt(-1)>> >>


ContextOps == {"send", "send_local", "set_timer", "cancel_timer"}

\* the arguments of the call pass the type checks and the payload, if the call
\* takes a Message, is JSON-representable
GoodArguments(r) ==
    CASE r.op = "send" -> IsStr(r.args[1]) /\ Representable(r.msg)
      [] r.op = "send_local" -> Representable(r.msg)
      [] r.op = "set_timer" -> IsStr(r.args[1]) /\ r.args[2].t \in {"int", "float"}
      [] r.op = "cancel_timer" -> IsStr(r.args[1])
      [] OTHER -> FALSE

\* C18: a send, send_local, set_timer or cancel_timer that raises leaves the
\* three logs (and the time) as they were; send and send_local of a Message
\* whose payload json cannot serialize raise TypeError; and a call with good
\* arguments right after a call that raised returns and adds its one entry.
C18_FailureAtomic ==
    [][/\ (result'.op \in ContextOps /\ result'.status # "ok") =>
             /\ result'.status = "TypeError"
             /\ UNCHANGED <<LogVars, _time>>
       /\ (result'.op \in {"send", "send_local"} /\ ~Representable(result'.msg)) =>
             result'.status = "TypeError"
       /\ (/\ result.op \in ContextOps /\ result.status # "ok"
           /\ result'.op \in ContextOps /\ GoodArguments(result')) =>
             /\ result'.status = "ok"
             /\ Len(_sent_messages'[result'.ctx]) + Len(_sent_local_messages'[result'.ctx])
                   + Len(_timer_actions'[result'.ctx])
                = Len(_sent_messages[result'.ctx]) + Len(_sent_local_messages[result'.ctx])
                   + Len(_timer_actions[result'.ctx]) + 1]_vars

\* m1 sent locally, given a set as a value, then sent: the send raised on the
\* payload and the logs hold the one earlier entry
C18_Witness ==
    /\ result.op = "send" /\ result.status = "TypeError" /\ result.msg = "m1"
    /\ IsStr(result.args[1])
    /\ ~Representable("m1")
    /\ Len(_sent_local_messages["c1"]) = 1
    /\ _sent_messages["c1"] = <<>>
    /\ _timer_actions["c1"] = <<>>


\* C19: a set or remove on one Message leaves the payload read through every
\* other Message as it was, also when both were constructed from one mapping.
C19_MessageOwnsPayload ==
    [][result'.op \in {"setitem", "remove"} =>
          \A m \in Msgs \ {result'.msg} : heap'[_data'[m]] = Payload(m)]_vars

====
